---- MODULE Spec2Model ----
(***************************************************************************)
(* A model of models.py: the HMM estimator (train_hmm_model), the Viterbi  *)
(* decoders of HmmNerModel and CrfNerModel, the beam decoder of            *)
(* CrfNerModel, the feature-based scorer and the forward-backward pass of  *)
(* compute_gradient.                                                       *)
(*                                                                         *)
(* Arrays are functions over 0..n-1, as in the source.  An Indexer is the  *)
(* sequence of its objects in id order (id = position - 1).  A word is the *)
(* sequence of its characters, and so is a tag.  Scores are integers.  A log-probability    *)
(* np.log(c / s) of the HMM estimator is kept as the record of c and s, in *)
(* thousandths of a count.                                                 *)
(***************************************************************************)
EXTENDS Integers, Sequences, FiniteSets, TLC

VARIABLES
    corpus,     \* train_hmm_model: the training sentences
    silent,     \* train_hmm_model: the silent flag
    trained,    \* train_hmm_model: what the call returned or raised
    hmm,        \* an HmmNerModel
    crf,        \* a CrfNerModel
    sentence,   \* the sentence_tokens of the last decode call
    out,        \* what the last decode call returned or raised
    example,    \* compute_gradient: the sentence and its emission potentials
    fb          \* compute_gradient: the forward-backward matrices

vars == <<corpus, silent, trained, hmm, crf, sentence, out, example, fb>>

\* The value of a variable the specification at hand does not use.
Unused == [status |-> "unused"]

-----------------------------------------------------------------------------
(* Small helpers.                                                          *)

Max(a, b) == IF a >= b THEN a ELSE b

Min(a, b) == IF a <= b THEN a ELSE b

\* The sum f[0] + ... + f[n] of a function over 0..n (0 when n < 0).
RECURSIVE SumTo(_, _)
SumTo(f, n) == IF n < 0 THEN 0 ELSE f[n] + SumTo(f, n - 1)

\* len of an array.
ArrayLen(a) == Cardinality(DOMAIN a)

\* An array with its entries computed once, at the place it is built.
Array(f) == f @@ << >>

\* The concatenation of a sequence of sequences.
RECURSIVE Flatten(_)
Flatten(ss) == IF ss = << >> THEN << >> ELSE Head(ss) \o Flatten(Tail(ss))

-----------------------------------------------------------------------------------------------------------------------------------------------------
(* Indexer (utils.py): a bijection between objects and the ids 0..n-1, in  *)
(* order of first appearance.  An indexer is kept as its objs_to_ints map. *)

EmptyIndexer == << >>

\* len(indexer)
IndexerLen(ix) == Cardinality(DOMAIN ix)

\* Indexer.contains
Contains(ix, o) == o \in DOMAIN ix

\* Indexer.index_of: the id of the object, -1 when it has none.
IndexOf(ix, o) == IF Contains(ix, o) THEN ix[o] ELSE -1

\* The indexer after Indexer.add_and_get_index(o).
AddObject(ix, o) == IF Contains(ix, o) THEN ix ELSE ix @@ (o :> IndexerLen(ix))

\* The id Indexer.add_and_get_index(o) returns.
AddAndGetIndex(ix, o) == IndexOf(AddObject(ix, o), o)

\* Indexer.get_object
GetObject(ix, i) ==
    IF \E o \in DOMAIN ix : ix[o] = i THEN CHOOSE o \in DOMAIN ix : ix[o] = i
    ELSE <<"None">>

\* The indexer after add_and_get_index of the objects of a sequence, in
\* order: each new object gets the next id at its first appearance.
AddAll(ix, os) ==
    LET firsts == {k \in 1..Len(os) :
                      /\ ~Contains(ix, os[k])
                      /\ \A j \in 1..(k - 1) : os[j] # os[k]}
        firstOf(o) == CHOOSE k \in firsts : os[k] = o
    IN  ix @@ [o \in {os[k] : k \in firsts} |->
                  IndexerLen(ix) + Cardinality({j \in firsts : j < firstOf(o)})]

\* The indexer holding the objects of a sequence, in order.
IndexerOf(os) == AddAll(EmptyIndexer, os)

-----
(* Words and tokens.                                                       *)

UNK == <<"U", "N", "K">>

India == <<"I", "n", "d", "i", "a">>

Phil == <<"P", "h", "i", "l">>

X7 == <<"x", "7">>

\* A Token (nerdata.py): a word and its part of speech.
Tok(w, p) == [word |-> w, pos |-> p]

\* BIO tags, as the sequences of their characters.
TagO == <<"O">>

TagBX == <<"B", "-", "X">>

TagIX == <<"I", "-", "X">>

TagBY == <<"B", "-", "Y">>

TagIY == <<"I", "-", "Y">>

TagBZ == <<"B", "-", "Z">>

TagIZ == <<"I", "-", "Z">>

TagBW == <<"B", "-", "W">>

TagIW == <<"I", "-", "W">>

\* isB, isI, isO and get_tag_label of nerdata.py.
isB(tag) == tag[1] = "B"

isI(tag) == tag[1] = "I"

isO(tag) == tag = TagO

get_tag_label(tag) == SubSeq(tag, 3, Len(tag))

-----------------------------------------------------------------------------
(* train_hmm_model                                                         *)

\* The most tokens a training corpus holds.
MaxCorpusTokens == 4

\* The additive smoothing 0.001 of every count, in thousandths.
SmoothMilli == 1

\* One observed occurrence (+= 1.0), in thousandths.
OneMilli == 1000

\* The threshold 1.5 of get_word_index, in tenths of an occurrence.
UnkThresholdTenths == 15

TrainWords == {India, Phil}

TrainTags == {TagO, TagBX}

\* A training corpus written flat: each token with its tag and whether it
\* opens a sentence.
FlatToken == [word : TrainWords, tag : TrainTags, first : BOOLEAN]

FlatCorpora ==
    {f \in UNION {[1..k -> FlatToken] : k \in 0..MaxCorpusTokens} :
        Len(f) > 0 => f[1].first}

\* A LabeledSentence: its tokens and the tags get_bio_tags() gives.
Labeled(toks, tags) == [tokens |-> toks, bio_tags |-> tags]

RECURSIVE SplitSentences(_)
SplitSentences(f) ==
    IF f = << >> THEN << >>
    ELSE LET n == Len(f)
             \* the last token that opens a sentence
             s == CHOOSE k \in 1..n :
                     f[k].first /\ \A j \in (k + 1)..n : ~f[j].first
             last == Labeled([k \in 1..(n - s + 1) |-> Tok(f[s + k - 1].word, "NN")],
                             [k \in 1..(n - s + 1) |-> f[s + k - 1].tag])
         IN  Append(SplitSentences(SubSeq(f, 1, s - 1)), last)

Corpora == {SplitSentences(f) : f \in FlatCorpora}

\* The words of the corpus in reading order (lines 128-129).
CorpusWords(sentences) ==
    Flatten([s \in 1..Len(sentences) |->
                [i \in 1..Len(sentences[s].tokens) |-> sentences[s].tokens[i].word]])

\* The tags of the corpus in reading order (lines 135-136).
CorpusTags(sentences) ==
    Flatten([s \in 1..Len(sentences) |-> sentences[s].bio_tags])

\* word_counter: the Counter of the words; a word never counted reads 0.
WordCounter(sentences) ==
    LET ws == CorpusWords(sentences)
    IN  [w \in {ws[k] : k \in 1..Len(ws)} |->
            Cardinality({k \in 1..Len(ws) : ws[k] = w})]

CounterGet(counter, w) == IF w \in DOMAIN counter THEN counter[w] ELSE 0

\* get_word_index with the rare-word test lost: every word is indexed.
GetWordIndexObjectNoUnk(word_counter, word) == word

\* get_word_index: the object it hands to add_and_get_index.
GetWordIndexObject(word_counter, word) ==
    IF 10 * CounterGet(word_counter, word) < UnkThresholdTenths THEN UNK ELSE word

\* get_word_index: the indexer afterwards.
GetWordIndexer(word_indexer, word_counter, word) ==
    AddObject(word_indexer, GetWordIndexObject(word_counter, word))

\* get_word_index: the id returned.
GetWordIndex(word_indexer, word_counter, word) ==
    AddAndGetIndex(word_indexer, GetWordIndexObject(word_counter, word))

\* The word indexer after the indexing pass (lines 125-134).
RECURSIVE IndexWords(_, _, _)
IndexWords(word_indexer, word_counter, ws) ==
    IF ws = << >> THEN word_indexer
    ELSE IndexWords(GetWordIndexer(word_indexer, word_counter, Head(ws)),
                    word_counter, Tail(ws))

\* The tag indexer after the indexing pass (lines 124, 135-136).
IndexTags(sentences) == IndexerOf(CorpusTags(sentences))

\* The positions <<sentence, token>> of the corpus in reading order.
CorpusPositions(sentences) ==
    Flatten([s \in 1..Len(sentences) |->
                [i \in 1..Len(sentences[s].tokens) |-> <<s, i - 1>>]])

\* The counting pass (lines 139-151): c holds the three count tables and
\* the two indexers; ps are the positions still to count.
RECURSIVE CountPass(_, _, _, _)
CountPass(sentences, word_counter, ps, c) ==
    IF ps = << >> THEN c
    ELSE LET s == Head(ps)[1]
             i == Head(ps)[2]
             bio_tags == sentences[s].bio_tags
             tag_ix == AddObject(c.tag_indexer, bio_tags[i + 1])
             tag_idx == IndexOf(tag_ix, bio_tags[i + 1])
             word == sentences[s].tokens[i + 1].word
             word_ix == GetWordIndexer(c.word_indexer, word_counter, word)
             word_idx == GetWordIndex(c.word_indexer, word_counter, word)
             emission == [c.emission_counts EXCEPT ![tag_idx][word_idx] = @ + OneMilli]
             prev_idx == IF i = 0 THEN -1 ELSE IndexOf(tag_ix, bio_tags[i])
             init == IF i = 0
                     THEN [c.init_counts EXCEPT ![tag_idx] = @ + OneMilli]
                     ELSE c.init_counts
             transition == IF i = 0
                           THEN c.transition_counts
                           ELSE [c.transition_counts EXCEPT ![prev_idx][tag_idx] = @ + OneMilli]
         IN  CountPass(sentences, word_counter, Tail(ps),
                       [tag_indexer |-> tag_ix, word_indexer |-> word_ix,
                        init_counts |-> init, transition_counts |-> transition,
                        emission_counts |-> emission])

\* np.ones(...) * 0.001 of lines 139-141.
NpOnes1(n) == Array([i \in 0..(n - 1) |-> SmoothMilli])

NpOnes(rows, cols) == Array([i \in 0..(rows - 1) |-> NpOnes1(cols)])

\* np.log(c / s), kept as the ratio under the logarithm.
LogRatio(c, s) == [num |-> c, den |-> s]

\* The transition normaliser summed over the wrong axis (axis=0).
TransitionColumnSum(transition_counts, prev, num_tags) ==
    SumTo([p \in 0..(num_tags - 1) |-> transition_counts[p][prev]], num_tags - 1)

\* The sum the transition row of prev is divided by (line 159, axis=1).
TransitionRowSum(transition_counts, prev, num_tags) ==
    SumTo(transition_counts[prev], num_tags - 1)

\* The sum the emission row of tag is divided by (line 161, axis=1).
EmissionRowSum(emission_counts, tag, num_words) ==
    SumTo(emission_counts[tag], num_words - 1)

\* The debugging output of lines 162-169: the word indexer after the two
\* add_and_get_index calls, and whether both columns read exist.
PrintedWordIndexer(word_indexer, isSilent) ==
    IF isSilent THEN word_indexer ELSE AddObject(AddObject(word_indexer, India), Phil)

PrintRaises(word_indexer, num_words, isSilent) ==
    /\ ~isSilent
    /\ \/ AddAndGetIndex(word_indexer, India) >= num_words
       \/ AddAndGetIndex(AddObject(word_indexer, India), Phil) >= num_words

\* train_hmm_model(sentences, silent): the model returned, or the error.
train_hmm_model(sentences, isSilent) ==
    LET word_counter == WordCounter(sentences)
        word_indexer == IndexWords(AddObject(EmptyIndexer, UNK), word_counter,
                                   CorpusWords(sentences))
        tag_indexer == IndexTags(sentences)
        T == IndexerLen(tag_indexer)
        V == IndexerLen(word_indexer)
        c == CountPass(sentences, word_counter, CorpusPositions(sentences),
                 [tag_indexer |-> tag_indexer, word_indexer |-> word_indexer,
                  init_counts |-> NpOnes1(T),
                  transition_counts |-> NpOnes(T, T),
                  emission_counts |-> NpOnes(T, V)])
        init_sum == SumTo(c.init_counts, T - 1)
    IN  IF PrintRaises(c.word_indexer, V, isSilent)
        THEN [status |-> "IndexError"]
        ELSE [status |-> "ok",
              tag_indexer |-> c.tag_indexer,
              word_indexer |-> PrintedWordIndexer(c.word_indexer, isSilent),
              init_log_probs |-> [t \in 0..(T - 1) |-> LogRatio(c.init_counts[t], init_sum)],
              transition_log_probs |->
                  [p \in 0..(T - 1) |-> [t \in 0..(T - 1) |->
                      LogRatio(c.transition_counts[p][t],
                               TransitionRowSum(c.transition_counts, p, T))]],
              emission_log_probs |->
                  [t \in 0..(T - 1) |-> [w \in 0..(V - 1) |->
                      LogRatio(c.emission_counts[t][w],
                               EmissionRowSum(c.emission_counts, t, V))]]]

Untrained == [status |-> "untrained"]

InitTrain ==
    /\ corpus \in Corpora
    /\ silent \in BOOLEAN
    /\ trained = Untrained
    /\ hmm = Unused /\ crf = Unused /\ sentence = Unused /\ out = Unused
    /\ example = Unused /\ fb = Unused

\* The call train_hmm_model(corpus, silent).
TrainHmm ==
    /\ trained = Untrained
    /\ trained' = train_hmm_model(corpus, silent)
    /\ UNCHANGED <<corpus, silent, hmm, crf, sentence, out, example, fb>>

NextTrain == TrainHmm

SpecTrain == InitTrain /\ [][NextTrain]_vars

-----------------------------------------------------------------------------
(* Decoding: the sentences and what is shared by the decoders.             *)

\* The most tokens a sentence to decode holds.
MaxLen == 3

\* India is a training word; x7 and its part of speech are never seen in
\* training.
DecodeTokens == {Tok(India, "NNP"), Tok(X7, "CD")}

Sentences == UNION {[1..n -> DecodeTokens] : n \in 0..MaxLen}

\* np.argmax of xs[0..n-1]: the first index that holds the maximum.
ArgMax(xs, n) ==
    CHOOSE k \in 0..(n - 1) :
        /\ \A j \in 0..(n - 1) : xs[j] <= xs[k]
        /\ \A j \in 0..(k - 1) : xs[j] < xs[k]

\* np.zeros((rows, cols)): the matrix, all 0.
NpZeros(rows, cols) == Array([i \in 0..(rows - 1) |-> Array([j \in 0..(cols - 1) |-> 0])])

\* np.flip of a list.
Reverse(xs) == [k \in 1..Len(xs) |-> xs[Len(xs) + 1 - k]]

\* The back pass with line 102 (266) lost: last_sate is never moved.
RECURSIVE BackTrackStuck(_, _, _)
BackTrackStuck(prev, last_sate, i) ==
    IF i < 0 THEN << >>
    ELSE <<prev[last_sate][i]>> \o BackTrackStuck(prev, last_sate, i - 1)

\* The back pass (lines 100-103 and 264-267): the entries the loop writes
\* to best_indices, for i down to 0.
RECURSIVE BackTrack(_, _, _)
BackTrack(prev, last_sate, i) ==
    IF i < 0 THEN << >>
    ELSE <<prev[last_sate][i]>> \o BackTrack(prev, prev[last_sate][i], i - 1)

\* What a decode call returns: the predicted tags the LabeledSentence is
\* built from; or the exception it raises.
Returned(pred_tags) == [status |-> "ok", pred_tags |-> pred_tags]

Raised(exception) == [status |-> exception]

-----------------------------------------------------------------------------
(* HmmNerModel.decode                                                      *)

\* ProbabilisticSequenceScorer (lines 37-46) over the tables of a model.
prob_score_init(model, tag_idx) == model.init_log_probs[tag_idx]

prob_score_transition(model, prev_tag_idx, curr_tag_idx) ==
    model.transition_log_probs[prev_tag_idx][curr_tag_idx]

prob_score_emission(model, toks, tag_idx, word_posn) ==
    LET word == toks[word_posn + 1].word
        word_idx == IF Contains(model.word_indexer, word)
                    THEN IndexOf(model.word_indexer, word)
                    ELSE IndexOf(model.word_indexer, UNK)
    IN  model.emission_log_probs[tag_idx][word_idx]

\* The emission column with the fallback of lines 81-82 lost: the index -1
\* reads the last column.
HmmWordIndexNoFallback(model, word) ==
    LET word_index == IndexOf(model.word_indexer, word)
    IN  IF word_index = -1 THEN IndexerLen(model.word_indexer) - 1 ELSE word_index

\* The id of the emission column of a word (lines 80-82).
HmmWordIndex(model, word) ==
    LET word_index == IndexOf(model.word_indexer, word)
    IN  IF word_index = -1 THEN IndexOf(model.word_indexer, UNK) ELSE word_index

\* The forward pass (lines 78-92) from position token on; mp holds matrix
\* and prev.
RECURSIVE HmmTrellis(_, _, _, _)
HmmTrellis(model, toks, token, mp) ==
    IF token >= Len(toks) THEN mp
    ELSE LET num_tags == ArrayLen(model.init_log_probs)
             word_index == HmmWordIndex(model, toks[token + 1].word)
             tags_for_i ==
                 Array([current_i \in 0..(num_tags - 1) |->
                     Array([prev_i \in 0..(num_tags - 1) |->
                         mp.matrix[prev_i][token - 1]
                             + model.transition_log_probs[prev_i][current_i]])])
             matrix ==
                 IF token = 0
                 THEN Array([i \in 0..(num_tags - 1) |->
                          [mp.matrix[i] EXCEPT ![0] =
                              model.init_log_probs[i] + model.emission_log_probs[i][word_index]]])
                 ELSE Array([current_i \in 0..(num_tags - 1) |->
                          [mp.matrix[current_i] EXCEPT ![token] =
                              tags_for_i[current_i][ArgMax(tags_for_i[current_i], num_tags)]
                                  + model.emission_log_probs[current_i][word_index]]])
             prev ==
                 IF token = 0 THEN mp.prev
                 ELSE Array([current_i \in 0..(num_tags - 1) |->
                          [mp.prev[current_i] EXCEPT ![token - 1] =
                              ArgMax(tags_for_i[current_i], num_tags)]])
         IN  HmmTrellis(model, toks, token + 1, [matrix |-> matrix, prev |-> prev])

\* decode with an early return for the empty sentence.
HmmDecodeEmptyOk(model, toks) == Returned(<< >>)

\* decode of the empty sentence: np.zeros((num_tags, -1)) of line 76 raises.
HmmDecodeEmpty(model, toks) == Raised("ValueError")

\* HmmNerModel.decode(sentence_tokens)
HmmDecode(model, toks) ==
    LET num_tags == ArrayLen(model.init_log_probs)
        N == Len(toks)
    IN  IF N - 1 < 0 THEN HmmDecodeEmpty(model, toks)
        ELSE LET mp == HmmTrellis(model, toks, 0,
                           [matrix |-> NpZeros(num_tags, N), prev |-> NpZeros(num_tags, N - 1)])
                 last_sate == ArgMax(Array([i \in 0..(num_tags - 1) |-> mp.matrix[i][N - 1]]),
                                     num_tags)
                 best_indices == Reverse(<<last_sate>> \o BackTrack(mp.prev, last_sate, N - 2))
             IN  Returned([k \in 1..N |-> GetObject(model.tag_indexer, best_indices[k])])

\* The HmmNerModels decoded with: two tags, the vocabulary UNK and India.
HmmInitScores == {-2, -1}

HmmTransitionScores == {-3, -1}

HmmEmissionScores == {-4, -1}

HmmModels ==
    {[status |-> "ok",
      tag_indexer |-> IndexerOf(<<TagO, TagBX>>),
      word_indexer |-> IndexerOf(<<UNK, India>>),
      init_log_probs |-> i,
      transition_log_probs |-> t,
      emission_log_probs |-> e] :
        i \in [0..1 -> HmmInitScores],
        t \in [0..1 -> [0..1 -> HmmTransitionScores]],
        e \in [0..1 -> [0..1 -> HmmEmissionScores]]}

NoCall == [call |-> "none", result |-> [status |-> "none"]]

\* The call hmm.decode(toks).
HmmDecodeCall ==
    /\ hmm.status = "ok"
    /\ out = NoCall
    /\ \E toks \in Sentences :
           /\ sentence' = toks
           /\ out' = [call |-> "HmmNerModel.decode", result |-> HmmDecode(hmm, toks)]
    /\ UNCHANGED <<corpus, silent, trained, hmm, crf, example, fb>>


-----------------------------------------------------------------------------
(* extract_emission_features                                               *)

\* max_ngram_size of line 394.
MaxNgramSize == 3

\* str.isupper, str.islower and str.isdigit on the characters in use.
UpperChars == {"I", "P", "U", "N", "K"}

LowerChars == {"n", "d", "i", "a", "h", "l", "x"}

DigitChars == {"7"}

\* repr of an idx_offset.
ReprOffset(idx_offset) ==
    IF idx_offset = -1 THEN "-1" ELSE IF idx_offset = 0 THEN "0" ELSE "1"

\* The two features of one idx_offset (lines 379-392), as the sequences of
\* the pieces the feature string is concatenated from.
ContextFeatures(toks, word_index, tag, idx_offset) ==
    LET at == word_index + idx_offset
        active_word == IF at < 0 THEN <<"<s>">>
                       ELSE IF at >= Len(toks) THEN <<"</s>">>
                       ELSE toks[at + 1].word
        active_pos == IF at < 0 THEN "<S>"
                      ELSE IF at >= Len(toks) THEN "</S>"
                      ELSE toks[at + 1].pos
    IN  <<tag \o <<":Word", ReprOffset(idx_offset), "=">> \o active_word,
          tag \o <<":Pos", ReprOffset(idx_offset), "=", active_pos>>>>

\* The two features of one ngram_size (lines 396-399).
NgramFeatures(curr_word, tag, ngram_size) ==
    LET n == Len(curr_word)
    IN  <<tag \o <<":StartNgram=">> \o SubSeq(curr_word, 1, Min(ngram_size, n)),
          tag \o <<":EndNgram=">> \o SubSeq(curr_word, Max(0, n - ngram_size) + 1, n)>>

RECURSIVE AllNgramFeatures(_, _, _)
AllNgramFeatures(curr_word, tag, ngram_size) ==
    IF ngram_size > MaxNgramSize THEN << >>
    ELSE NgramFeatures(curr_word, tag, ngram_size)
             \o AllNgramFeatures(curr_word, tag, ngram_size + 1)

\* The word shape of lines 403-412.
WordShape(curr_word) ==
    [i \in 1..Len(curr_word) |->
        IF curr_word[i] \in UpperChars THEN "X"
        ELSE IF curr_word[i] \in LowerChars THEN "x"
        ELSE IF curr_word[i] \in DigitChars THEN "0"
        ELSE "?"]

\* The feature strings handed to maybe_add_feature, in order.
FeatureStrings(toks, word_index, tag) ==
    LET curr_word == toks[word_index + 1].word
    IN  ContextFeatures(toks, word_index, tag, -1)
            \o ContextFeatures(toks, word_index, tag, 0)
            \o ContextFeatures(toks, word_index, tag, 1)
            \o AllNgramFeatures(curr_word, tag, 1)
            \o <<tag \o <<":IsCap=", IF curr_word[1] \in UpperChars THEN "True" ELSE "False">>>>
            \o <<tag \o <<":WordShape=">> \o WordShape(curr_word)>>

\* maybe_add_feature (utils.py), called on each feature string in turn.
\* In training mode every string is registered, in order, and its id
\* appended to feats; in inference mode the id of a string the indexer
\* knows is appended and an unseen string is skipped.
IndexerAfterFeatures(feature_indexer, add_to_indexer, strings) ==
    IF add_to_indexer THEN AddAll(feature_indexer, strings) ELSE feature_indexer

FeatureIds(feature_indexer, add_to_indexer, strings) ==
    LET indexer == IndexerAfterFeatures(feature_indexer, add_to_indexer, strings)
        known == SelectSeq(strings, LAMBDA f : Contains(indexer, f))
    IN  [k \in 1..Len(known) |-> indexer[known[k]]] \o << >>

\* extract_emission_features: the feature ids returned, and the feature
\* indexer afterwards.
extract_emission_features(toks, word_index, tag, feature_indexer, add_to_indexer) ==
    LET strings == FeatureStrings(toks, word_index, tag)
    IN  [feats |-> FeatureIds(feature_indexer, add_to_indexer, strings),
         indexer |-> IndexerAfterFeatures(feature_indexer, add_to_indexer, strings)]

\* The feature strings of the cells of a sentence in the order of the two
\* loops: word by word, and tag by tag within a word.
CellStrings(toks, tag_indexer) ==
    Flatten([k \in 1..(Len(toks) * IndexerLen(tag_indexer)) |->
                FeatureStrings(toks, (k - 1) \div IndexerLen(tag_indexer),
                               GetObject(tag_indexer, (k - 1) % IndexerLen(tag_indexer)))])

\* The feature cache of one sentence (lines 235-238, 292-295 and 336-338)
\* and the feature indexer after the loops.  An id, once given, is kept:
\* the cell of a word and a tag holds what extract_emission_features
\* returns for it against the indexer the loops end with (in training
\* mode), or against the indexer as it is (in inference mode).
FeatureCache(toks, tag_indexer, feature_indexer, add_to_indexer) ==
    LET indexer == IndexerAfterFeatures(feature_indexer, add_to_indexer,
                                        CellStrings(toks, tag_indexer))
    IN  [cache |->
            Array([word_idx \in 0..(Len(toks) - 1) |->
                Array([tag_idx \in 0..(IndexerLen(tag_indexer) - 1) |->
                    extract_emission_features(toks, word_idx, GetObject(tag_indexer, tag_idx),
                                              indexer, FALSE).feats])]),
         indexer |-> indexer]

-----------------------------------------------------------------------------
(* FeatureBasedSequenceScorer                                              *)

\* The score of line 203.
InitPenalty == -1000

\* The score of line 213.
TransitionPenalty == -1000

\* feature_weights.score(feats) (optimizers.py): the sum of the weights of
\* the features.
RECURSIVE Score(_, _)
Score(feature_weights, feats) ==
    IF feats = << >> THEN 0
    ELSE feature_weights[Head(feats)] + Score(feature_weights, Tail(feats))

\* A scorer: the tag indexer, the weights and the feature cache.
Scorer(tag_indexer, feature_weights, feat_cache) ==
    [tag_indexer |-> tag_indexer, feature_weights |-> feature_weights,
     feat_cache |-> feat_cache]

score_init(scorer, tag_idx) ==
    IF isI(GetObject(scorer.tag_indexer, tag_idx)) THEN InitPenalty ELSE 0

score_transition(scorer, prev_tag_idx, curr_tag_idx) ==
    LET prev_tag == GetObject(scorer.tag_indexer, prev_tag_idx)
        curr_tag == GetObject(scorer.tag_indexer, curr_tag_idx)
    IN  IF \/ isO(prev_tag) /\ isI(curr_tag)
           \/ isB(prev_tag) /\ isI(curr_tag)
                 /\ get_tag_label(prev_tag) # get_tag_label(curr_tag)
           \/ isI(prev_tag) /\ isI(curr_tag)
                 /\ get_tag_label(prev_tag) # get_tag_label(curr_tag)
        THEN TransitionPenalty ELSE 0

score_emission(scorer, tag_idx, word_posn) ==
    Score(scorer.feature_weights, scorer.feat_cache[word_posn][tag_idx])

\* Whether score_emission raises for some cell of the cache: the weight
\* vector has no entry for a feature id of the cell.
ScoreRaises(scorer) ==
    \E word_posn \in DOMAIN scorer.feat_cache :
        \E tag_idx \in DOMAIN scorer.feat_cache[word_posn] :
            \E k \in DOMAIN scorer.feat_cache[word_posn][tag_idx] :
                scorer.feat_cache[word_posn][tag_idx][k] \notin DOMAIN scorer.feature_weights

-----------------------------------------------------------------------------
(* CrfNerModel.decode                                                      *)

\* The add_to_indexer argument of line 238, and the same set by mistake.
DecodeAddToIndexerTrue == TRUE

DecodeAddToIndexer == FALSE

\* The add_to_indexer argument of line 295.
BeamAddToIndexer == FALSE

\* The forward pass (lines 246-256) from position token on; mp holds matrix
\* and prev.
RECURSIVE CrfTrellis(_, _, _, _)
CrfTrellis(scorer, toks, token, mp) ==
    IF token >= Len(toks) THEN mp
    ELSE LET num_tags == IndexerLen(scorer.tag_indexer)
             tags_for_i ==
                 Array([current_i \in 0..(num_tags - 1) |->
                     Array([prev_i \in 0..(num_tags - 1) |->
                         mp.matrix[prev_i][token - 1]
                             + score_transition(scorer, prev_i, current_i)])])
             matrix ==
                 IF token = 0
                 THEN Array([i \in 0..(num_tags - 1) |->
                          [mp.matrix[i] EXCEPT ![0] =
                              score_init(scorer, i) + score_emission(scorer, i, token)]])
                 ELSE Array([current_i \in 0..(num_tags - 1) |->
                          [mp.matrix[current_i] EXCEPT ![token] =
                              tags_for_i[current_i][ArgMax(tags_for_i[current_i], num_tags)]
                                  + score_emission(scorer, current_i, token)]])
             prev ==
                 IF token = 0 THEN mp.prev
                 ELSE Array([current_i \in 0..(num_tags - 1) |->
                          [mp.prev[current_i] EXCEPT ![token - 1] =
                              ArgMax(tags_for_i[current_i], num_tags)]])
         IN  CrfTrellis(scorer, toks, token + 1, [matrix |-> matrix, prev |-> prev])

\* The feature cache decode builds, with the feature indexer afterwards.
CrfDecodeCache(model, toks) ==
    FeatureCache(toks, model.tag_indexer, model.feature_indexer, DecodeAddToIndexer)

\* CrfNerModel.decode(sentence_tokens); np.zeros((num_tags, -1)) of line
\* 244 raises for the empty sentence.
CrfDecode(model, toks) ==
    LET scorer == Scorer(model.tag_indexer, model.feature_weights,
                         CrfDecodeCache(model, toks).cache)
        num_tags == IndexerLen(model.tag_indexer)
        N == Len(toks)
    IN  IF N - 1 < 0 THEN Raised("ValueError")
        ELSE IF ScoreRaises(scorer) THEN Raised("IndexError")
        ELSE LET mp == CrfTrellis(scorer, toks, 0,
                           [matrix |-> NpZeros(num_tags, N), prev |-> NpZeros(num_tags, N - 1)])
                 last_sate == ArgMax(Array([i \in 0..(num_tags - 1) |-> mp.matrix[i][N - 1]]),
                                     num_tags)
                 best_indices == Reverse(<<last_sate>> \o BackTrack(mp.prev, last_sate, N - 2))
             IN  Returned([k \in 1..N |-> GetObject(model.tag_indexer, best_indices[k])])

-----------------------------------------------------------------------------
(* Beam (utils.py) and CrfNerModel.decode_beam                             *)

\* beam_size of line 284.
BeamSize == 9

\* A Beam: its hypotheses with their scores, best first.
EmptyBeam == << >>

\* Beam.add: the beam keeps its size best hypotheses; of two with the same
\* score the one added first stays ahead.
BeamAdd(beam, size, elt, score) ==
    LET ahead == Cardinality({j \in 1..Len(beam) : beam[j].score >= score})
        all == SubSeq(beam, 1, ahead) \o <<[elt |-> elt, score |-> score]>>
                   \o SubSeq(beam, ahead + 1, Len(beam))
    IN  SubSeq(all, 1, Min(size, Len(all)))

\* Beam.head
BeamHead(beam) == beam[1].elt

\* The seeding of lines 299-300 from tag i on.
RECURSIVE BeamSeed(_, _, _)
BeamSeed(scorer, i, current_beam) ==
    IF i >= IndexerLen(scorer.tag_indexer) THEN current_beam
    ELSE BeamSeed(scorer, i + 1,
             BeamAdd(current_beam, BeamSize, <<i>>,
                     score_init(scorer, i) + score_emission(scorer, i, 0)))

\* The two loops of lines 304-307 from step k on, k counting the pairs of
\* i and current_i; tags and scores are the snapshot of line 303.
RECURSIVE BeamExpand(_, _, _, _, _)
BeamExpand(scorer, snapshot, token, k, next_beam) ==
    LET num_tags == IndexerLen(scorer.tag_indexer)
    IN  IF k >= BeamSize * num_tags THEN next_beam
        ELSE LET i == k \div num_tags
                 current_i == k % num_tags
                 tags_i == snapshot[i + 1].elt
                 seq == Append(tags_i, current_i)
             IN  BeamExpand(scorer, snapshot, token, k + 1,
                     BeamAdd(next_beam, BeamSize, seq,
                             snapshot[i + 1].score
                                 + score_transition(scorer, tags_i[Len(tags_i)], current_i)
                                 + score_emission(scorer, current_i, token)))

\* Whether tags[i] of lines 306-307 is read past the end of the snapshot.
BeamIndexRaises(scorer, snapshot) ==
    IndexerLen(scorer.tag_indexer) > 0 /\ Len(snapshot) < BeamSize

\* The loop of lines 302-308 from position token on.  next_beam is made
\* once, before the loop, and current_beam is bound to it at line 308.
RECURSIVE BeamSearch(_, _, _, _, _)
BeamSearch(scorer, num_words, token, current_beam, next_beam) ==
    IF token >= num_words THEN [status |-> "ok", beam |-> current_beam]
    ELSE IF BeamIndexRaises(scorer, current_beam) THEN Raised("IndexError")
    ELSE LET expanded == BeamExpand(scorer, current_beam, token, 0, next_beam)
         IN  BeamSearch(scorer, num_words, token + 1, expanded, expanded)

\* The hypotheses current_beam holds after each position the loops of
\* lines 299-308 got through, from position token on: beams[i + 1] is the
\* beam after position i.
RECURSIVE BeamsAfter(_, _, _, _, _)
BeamsAfter(scorer, num_words, token, current_beam, next_beam) ==
    IF token >= num_words \/ BeamIndexRaises(scorer, current_beam) THEN << >>
    ELSE LET expanded == BeamExpand(scorer, current_beam, token, 0, next_beam)
         IN  <<[k \in 1..Len(expanded) |-> expanded[k].elt]>>
                 \o BeamsAfter(scorer, num_words, token + 1, expanded, expanded)

\* current_beam after every position of a decode_beam call.
CrfBeams(model, toks) ==
    LET scorer == Scorer(model.tag_indexer, model.feature_weights,
                         FeatureCache(toks, model.tag_indexer, model.feature_indexer,
                                      BeamAddToIndexer).cache)
    IN  IF Len(toks) = 0 \/ ScoreRaises(scorer) THEN << >>
        ELSE LET seeded == BeamSeed(scorer, 0, EmptyBeam)
             IN  <<[k \in 1..Len(seeded) |-> seeded[k].elt]>>
                     \o BeamsAfter(scorer, Len(toks), 1, seeded, EmptyBeam)

\* The feature cache decode_beam builds, with the feature indexer afterwards.
CrfBeamCache(model, toks) ==
    FeatureCache(toks, model.tag_indexer, model.feature_indexer, BeamAddToIndexer)

\* CrfNerModel.decode_beam(sentence_tokens); for the empty sentence
\* feat_cache[0] of line 300 (or elts[0] of Beam.head) raises.
CrfDecodeBeam(model, toks) ==
    LET scorer == Scorer(model.tag_indexer, model.feature_weights,
                         CrfBeamCache(model, toks).cache)
        num_words == Len(toks)
    IN  IF num_words = 0 \/ ScoreRaises(scorer) THEN Raised("IndexError")
        ELSE LET found == BeamSearch(scorer, num_words, 1,
                                     BeamSeed(scorer, 0, EmptyBeam), EmptyBeam)
             IN  IF found.status # "ok" THEN found
                 ELSE LET last_state == BeamHead(found.beam)
                      IN  Returned([k \in 1..Len(last_state) |->
                                       GetObject(model.tag_indexer, last_state[k])])

-----------------------------------------------------------------------------
(* The CrfNerModels decoded with.  The tag indexer and the feature indexer *)
(* are those train_crf_model builds from a one-sentence corpus; the weight *)
(* vector is 0 but for one or two features.                                *)

IndiaToken == Tok(India, "NNP")

CrfCorpus3 == <<Labeled(<<IndiaToken, IndiaToken, IndiaToken>>, <<TagO, TagBX, TagIX>>)>>

CrfCorpus4 ==
    <<Labeled(<<IndiaToken, IndiaToken, IndiaToken, IndiaToken>>,
              <<TagBX, TagIX, TagIY, TagO>>)>>

CrfCorpora == {CrfCorpus3, CrfCorpus4}

\* A corpus with as many tags as the beam is wide.
CrfCorpus9 ==
    <<Labeled([k \in 1..9 |-> IndiaToken],
              <<TagO, TagBX, TagIX, TagBY, TagIY, TagBZ, TagIZ, TagBW, TagIW>>)>>

UniformWeights == {-1, 1}

\* The tag indexer of lines 324-327.
CrfTagIndexer(sentences) == IndexerOf(CorpusTags(sentences))

\* The feature indexer of lines 330-338, from sentence sentence_idx on.
RECURSIVE CrfFeatureIndexer(_, _, _, _)
CrfFeatureIndexer(sentences, tag_indexer, sentence_idx, feature_indexer) ==
    IF sentence_idx >= Len(sentences) THEN feature_indexer
    ELSE CrfFeatureIndexer(sentences, tag_indexer, sentence_idx + 1,
             FeatureCache(sentences[sentence_idx + 1].tokens, tag_indexer,
                          feature_indexer, TRUE).indexer)

CrfWeights1 == {2, 1500}

CrfWeights2 == {3}

\* The features that may carry a weight: for every tag, India as the word
\* itself (offset "0") or as the word before (offset "-1").
WeightedFeatures(tag_indexer, feature_indexer, offsets) ==
    {IndexOf(feature_indexer, tag \o <<":Word", off, "=">> \o India) :
        tag \in DOMAIN tag_indexer, off \in offsets}

CrfModelsOf(sentences) ==
    LET tag_indexer == CrfTagIndexer(sentences)
        feature_indexer == CrfFeatureIndexer(sentences, tag_indexer, 0, EmptyIndexer)
        hot1 == WeightedFeatures(tag_indexer, feature_indexer, {"0", "-1"})
        hot2 == WeightedFeatures(tag_indexer, feature_indexer, {"0"})
    IN  {[status |-> "ok",
          tag_indexer |-> tag_indexer,
          feature_indexer |-> feature_indexer,
          feature_weights |->
              [f \in 0..(IndexerLen(feature_indexer) - 1) |->
                  (IF f = h1 THEN v1 ELSE 0) + (IF f = h2 THEN v2 ELSE 0)]] :
            h1 \in hot1, h2 \in hot2, v1 \in CrfWeights1, v2 \in CrfWeights2}

\* The models of a corpus whose weight vector is 0 but for one weight, the
\* same for every tag, on the features of India as the word itself.
CrfUniformModelsOf(sentences) ==
    LET tag_indexer == CrfTagIndexer(sentences)
        feature_indexer == CrfFeatureIndexer(sentences, tag_indexer, 0, EmptyIndexer)
        hot == WeightedFeatures(tag_indexer, feature_indexer, {"0"})
    IN  {[status |-> "ok",
          tag_indexer |-> tag_indexer,
          feature_indexer |-> feature_indexer,
          feature_weights |->
              [f \in 0..(IndexerLen(feature_indexer) - 1) |-> IF f \in hot THEN v ELSE 0]] :
            v \in UniformWeights}

CrfModels ==
    UNION {CrfModelsOf(sentences) : sentences \in CrfCorpora}
        \cup CrfUniformModelsOf(CrfCorpus9)

\* The call crf.decode(toks).
CrfDecodeCall ==
    /\ crf.status = "ok"
    /\ out = NoCall
    /\ \E toks \in Sentences :
           /\ sentence' = toks
           /\ out' = [call |-> "CrfNerModel.decode", result |-> CrfDecode(crf, toks)]
           /\ crf' = [crf EXCEPT !.feature_indexer = CrfDecodeCache(crf, toks).indexer]
    /\ UNCHANGED <<corpus, silent, trained, hmm, example, fb>>

\* The call crf.decode_beam(toks).
CrfDecodeBeamCall ==
    /\ crf.status = "ok"
    /\ out = NoCall
    /\ \E toks \in Sentences :
           /\ sentence' = toks
           /\ out' = [call |-> "CrfNerModel.decode_beam", result |-> CrfDecodeBeam(crf, toks),
                       beams |-> CrfBeams(crf, toks)]
           /\ crf' = [crf EXCEPT !.feature_indexer = CrfBeamCache(crf, toks).indexer]
    /\ UNCHANGED <<corpus, silent, trained, hmm, example, fb>>

InitDecode ==
    /\ \/ hmm \in HmmModels /\ crf = Unused
       \/ hmm = Unused /\ crf \in CrfModels
    /\ sentence = << >>
    /\ out = NoCall
    /\ corpus = Unused /\ silent = Unused /\ trained = Unused
    /\ example = Unused /\ fb = Unused

\* The caller is done with what the last call gave; the model stays for
\* the next call.
CallerContinues ==
    /\ out # NoCall
    /\ out' = NoCall
    /\ sentence' = << >>
    /\ UNCHANGED <<corpus, silent, trained, hmm, crf, example, fb>>

NextDecode == HmmDecodeCall \/ CrfDecodeCall \/ CrfDecodeBeamCall \/ CallerContinues

SpecDecode == InitDecode /\ [][NextDecode]_vars

-----------------------------------------------------------------------------
(* compute_gradient: the forward-backward passes (lines 436-458).          *)
(*                                                                         *)
(* A log-space value v is kept as exp(v), exactly: a polynomial in         *)
(* eps = exp(-1000) with natural coefficients.  Adding log-space values is *)
(* multiplying, logsumexp is adding, the 0.0 of np.zeros is 1.  The        *)
(* emission score of a cell is any real, kept as exp of it; the examples   *)
(* draw it from EmissionPotentials.                                        *)

\* The longest example sentence.
MaxWords == 3

EmissionPotentials == {1, 2}

\* The coefficients of a value for an example of num_words words: no value
\* of the passes has a degree above num_words - 1, no product of two above
\* 2 * num_words - 2.
Degrees(num_words) == 0..(2 * num_words)

\* exp(0.0)
PolyOne(num_words) == Array([d \in Degrees(num_words) |-> IF d = 0 THEN 1 ELSE 0])

\* exp(-1000)
PolyEps(num_words) == Array([d \in Degrees(num_words) |-> IF d = 1 THEN 1 ELSE 0])

\* exp(v) for a score v whose exp is the natural number c.
PolyOf(c, num_words) == Array([d \in Degrees(num_words) |-> IF d = 0 THEN c ELSE 0])

\* exp(v + w) from exp(v) and exp(w).
PolyMul(a, b) ==
    Array([d \in DOMAIN a |-> SumTo([j \in 0..d |-> a[j] * b[d - j]], d)])

PolyAdd(a, b) == Array([d \in DOMAIN a |-> a[d] + b[d]])

\* exp(logsumexp(xs)) from the exp of the entries xs[0..n].
RECURSIVE PolySum(_, _)
PolySum(xs, n) == IF n = 0 THEN xs[0] ELSE PolyAdd(xs[n], PolySum(xs, n - 1))

\* exp of scorer.score_emission(sentence, tag_idx, word_posn)
ExpEmission(ex, tag_idx, word_posn) ==
    PolyOf(ex.potentials[word_posn][tag_idx], ex.num_words)

\* exp of scorer.score_transition(sentence, prev_tag_idx, curr_tag_idx)
ExpTransition(ex, prev_tag_idx, curr_tag_idx) ==
    IF score_transition(ex.scorer, prev_tag_idx, curr_tag_idx) = TransitionPenalty
    THEN PolyEps(ex.num_words) ELSE PolyOne(ex.num_words)

\* The matrices of lines 439-440 (np.zeros: every cell 0.0).
LogZeros(rows, cols, num_words) ==
    Array([i \in 0..(rows - 1) |-> Array([j \in 0..(cols - 1) |-> PolyOne(num_words)])])

\* An entry of tags_for_i of line 450.
AlphaTerm(ex, alpha_matrix, prev_i, current_i, idx) ==
    PolyMul(PolyMul(alpha_matrix[prev_i][idx - 1], ExpTransition(ex, prev_i, current_i)),
            ExpEmission(ex, current_i, idx))

\* The entry of line 455 with the tags of score_transition swapped.
BetaTermSwapped(ex, beta_matrix, current_i, next_i, idx) ==
    PolyMul(PolyMul(beta_matrix[next_i][idx + 1], ExpTransition(ex, next_i, current_i)),
            ExpEmission(ex, next_i, idx + 1))

\* An entry of the list of line 455.
BetaTerm(ex, beta_matrix, current_i, next_i, idx) ==
    PolyMul(PolyMul(beta_matrix[next_i][idx + 1], ExpTransition(ex, current_i, next_i)),
            ExpEmission(ex, next_i, idx + 1))

\* The examples: a tag indexer of train_crf_model, a sentence length and
\* the emission scores of the cells of the feature cache.
GradientExamples ==
    UNION {UNION {{[num_tags |-> IndexerLen(CrfTagIndexer(sentences)),
                    num_words |-> num_words,
                    scorer |-> [tag_indexer |-> CrfTagIndexer(sentences)],
                    potentials |-> Array([k \in 0..(num_words - 1) |-> Array(cells[k])])] :
                      cells \in [0..(num_words - 1) ->
                                    [0..(IndexerLen(CrfTagIndexer(sentences)) - 1)
                                        -> EmissionPotentials]]} :
                     num_words \in 1..MaxWords} :
              sentences \in {CrfCorpus3}}

NotStarted == [pc |-> "start"]

InitGradient ==
    /\ example \in GradientExamples
    /\ fb = NotStarted
    /\ corpus = Unused /\ silent = Unused /\ trained = Unused
    /\ hmm = Unused /\ crf = Unused /\ sentence = Unused /\ out = Unused

\* Lines 436-446: the matrices and their first and last columns.
GradientInitialize ==
    /\ fb.pc = "start"
    /\ LET num_tags == example.num_tags
           num_words == example.num_words
           zeros == LogZeros(num_tags, num_words, num_words)
       IN  fb' = [pc |-> "forward", idx |-> 1,
                  alpha_matrix |->
                      Array([i \in 0..(num_tags - 1) |->
                          [zeros[i] EXCEPT ![0] = ExpEmission(example, i, 0)]]),
                  beta_matrix |->
                      Array([i \in 0..(num_tags - 1) |->
                          [zeros[i] EXCEPT ![num_words - 1] = PolyOne(num_words)]])]
    /\ UNCHANGED <<corpus, silent, trained, hmm, crf, sentence, out, example>>

\* Lines 448-451: one round of the outer loop of the forward pass.
ForwardStep ==
    /\ fb.pc = "forward"
    /\ fb.idx < example.num_words
    /\ fb' = [fb EXCEPT
                 !.idx = fb.idx + 1,
                 !.alpha_matrix =
                     Array([current_i \in 0..(example.num_tags - 1) |->
                         [fb.alpha_matrix[current_i] EXCEPT ![fb.idx] =
                             PolySum([prev_i \in 0..(example.num_tags - 1) |->
                                         AlphaTerm(example, fb.alpha_matrix, prev_i,
                                                   current_i, fb.idx)],
                                     example.num_tags - 1)]])]
    /\ UNCHANGED <<corpus, silent, trained, hmm, crf, sentence, out, example>>

\* The forward loop ends and the backward loop of line 453 starts.
ForwardEnd ==
    /\ fb.pc = "forward"
    /\ fb.idx >= example.num_words
    /\ fb' = [fb EXCEPT !.pc = "backward", !.idx = example.num_words - 2]
    /\ UNCHANGED <<corpus, silent, trained, hmm, crf, sentence, out, example>>

\* Lines 453-455: one round of the outer loop of the backward pass.
BackwardStep ==
    /\ fb.pc = "backward"
    /\ fb.idx > -1
    /\ fb' = [fb EXCEPT
                 !.idx = fb.idx - 1,
                 !.beta_matrix =
                     Array([current_i \in 0..(example.num_tags - 1) |->
                         [fb.beta_matrix[current_i] EXCEPT ![fb.idx] =
                             PolySum([next_i \in 0..(example.num_tags - 1) |->
                                         BetaTerm(example, fb.beta_matrix, current_i,
                                                  next_i, fb.idx)],
                                     example.num_tags - 1)]])]
    /\ UNCHANGED <<corpus, silent, trained, hmm, crf, sentence, out, example>>

\* Line 458: denominators, one normalizer for each position.
Denominators ==
    /\ fb.pc = "backward"
    /\ fb.idx <= -1
    /\ fb' = [pc |-> "normalized", idx |-> fb.idx,
              alpha_matrix |-> fb.alpha_matrix, beta_matrix |-> fb.beta_matrix,
              denominators |->
                  Array([word_idx \in 0..(example.num_words - 1) |->
                      PolySum([tag_idx \in 0..(example.num_tags - 1) |->
                                  PolyMul(fb.alpha_matrix[tag_idx][word_idx],
                                          fb.beta_matrix[tag_idx][word_idx])],
                              example.num_tags - 1)])]
    /\ UNCHANGED <<corpus, silent, trained, hmm, crf, sentence, out, example>>

NextGradient ==
    GradientInitialize \/ ForwardStep \/ ForwardEnd \/ BackwardStep \/ Denominators

SpecGradient == InitGradient /\ [][NextGradient]_vars

-----------------------------------------------------------------------------
(* train_crf_model: the epochs (lines 317-360).                            *)
(*                                                                         *)
(* The weight vector is kept as the sequence of the gradients applied to   *)
(* it since np.zeros, a gradient as the example it was computed for and    *)
(* the weight vector its scorer wrapped.  random.shuffle gives some        *)
(* permutation of the sentence indices.                                    *)

\* The most sentences of a CRF training corpus.
MaxSentences == 3

\* num_epochs of line 342.
NumEpochs == 3

CrfTrainCorpora == {[k \in 1..n |-> CrfCorpus3[1]] : n \in 0..MaxSentences}

\* The orders random.shuffle may leave the indices 0..n-1 in.
Shuffles(n) ==
    {order \in [1..n -> 0..(n - 1)] : \A i, j \in 1..n : order[i] = order[j] => i = j}

\* The weights wrapped at line 354, were they those of the start of the
\* epoch.
ScorerWeightsOfEpochStart(tr, n) == SubSeq(tr.weight_vector, 1, tr.epoch * n)

\* The weights the scorer of line 354 wraps: weight_vector as it is.
ScorerWeights(tr, n) == tr.weight_vector

\* compute_gradient of line 355 for sentence i: what it is a function of.
GradientOf(i, weights) == [sentence |-> i, weights |-> Len(weights)]

CrfTrainStart == [pc |-> "start"]

InitCrfTrain ==
    /\ corpus \in CrfTrainCorpora
    /\ silent \in BOOLEAN
    /\ trained = CrfTrainStart
    /\ hmm = Unused /\ crf = Unused /\ sentence = Unused /\ out = Unused
    /\ example = Unused /\ fb = Unused

\* Lines 324-343: the indexers, the feature cache and the zero weights.
CrfTrainSetup ==
    /\ trained.pc = "start"
    /\ LET tag_indexer == CrfTagIndexer(corpus)
       IN  trained' = [pc |-> "epoch", epoch |-> 0, counter |-> 0,
                       sent_indices |-> << >>,
                       tag_indexer |-> tag_indexer,
                       feature_indexer |->
                           CrfFeatureIndexer(corpus, tag_indexer, 0, EmptyIndexer),
                       weight_vector |-> << >>,
                       gradient |-> << >>,
                       gradients |-> << >>]
    /\ UNCHANGED <<corpus, silent, hmm, crf, sentence, out, example, fb>>

\* Lines 344-350: an epoch starts with its shuffle.
EpochStart ==
    /\ trained.pc = "epoch"
    /\ trained.epoch < NumEpochs
    /\ \E order \in Shuffles(Len(corpus)) :
           trained' = [trained EXCEPT !.pc = "example", !.counter = 0,
                                      !.sent_indices = order]
    /\ UNCHANGED <<corpus, silent, hmm, crf, sentence, out, example, fb>>

\* Lines 351-356: the scorer and the gradient of the next sentence.
ComputeGradient ==
    /\ trained.pc = "example"
    /\ trained.counter < Len(corpus)
    /\ LET i == trained.sent_indices[trained.counter + 1]
           gradient == GradientOf(i, ScorerWeights(trained, Len(corpus)))
       IN  trained' = [trained EXCEPT
                          !.pc = "update",
                          !.gradient = <<gradient>>,
                          !.gradients = Append(@, [epoch |-> trained.epoch,
                                                   sentence |-> i,
                                                   weights |-> gradient.weights])]
    /\ UNCHANGED <<corpus, silent, hmm, crf, sentence, out, example, fb>>

\* Line 357: weight_vector.apply_gradient_update(gradient, 1).
ApplyGradientUpdate ==
    /\ trained.pc = "update"
    /\ trained' = [trained EXCEPT
                      !.pc = "example",
                      !.counter = @ + 1,
                      !.weight_vector = Append(@, trained.gradient[1]),
                      !.gradient = << >>]
    /\ UNCHANGED <<corpus, silent, hmm, crf, sentence, out, example, fb>>

\* Lines 351 and 358-359: the sentences of the epoch are through.
EpochEnd ==
    /\ trained.pc = "example"
    /\ trained.counter >= Len(corpus)
    /\ trained' = [trained EXCEPT !.pc = "epoch", !.epoch = @ + 1]
    /\ UNCHANGED <<corpus, silent, hmm, crf, sentence, out, example, fb>>

\* Line 360: the model is returned.
CrfTrainReturn ==
    /\ trained.pc = "epoch"
    /\ trained.epoch >= NumEpochs
    /\ trained' = [trained EXCEPT !.pc = "returned"]
    /\ UNCHANGED <<corpus, silent, hmm, crf, sentence, out, example, fb>>

NextCrfTrain ==
    \/ CrfTrainSetup \/ EpochStart \/ ComputeGradient
    \/ ApplyGradientUpdate \/ EpochEnd \/ CrfTrainReturn

SpecCrfTrain == InitCrfTrain /\ [][NextCrfTrain]_vars

-----------------------------------------------------------------------------
(* Properties of train_hmm_model, stated on the corpus itself.             *)

\* The token positions <<s, i>> (both from 1) of the corpus.
TokenPositions ==
    {si \in (1..Len(corpus)) \X (1..MaxCorpusTokens + 1) :
        si[2] <= Len(corpus[si[1]].tokens)}

WordAt(si) == corpus[si[1]].tokens[si[2]].word

TagAt(si) == corpus[si[1]].bio_tags[si[2]]

Occurrences(w) == Cardinality({si \in TokenPositions : WordAt(si) = w})

\* The vocabulary entry the rare-word policy gives a training word.
VocabularyEntry(w) == IF Occurrences(w) >= 2 THEN w ELSE UNK

TrainedWords == DOMAIN trained.word_indexer

TrainedTagIds == 0..(IndexerLen(trained.tag_indexer) - 1)

TrainedWordIds == 0..(ArrayLen(trained.emission_log_probs[0]) - 1)

\* The smoothed counts, in thousandths, counted on the corpus.
SmoothedEmission(tag, entry) ==
    SmoothMilli + OneMilli *
        Cardinality({si \in TokenPositions :
                        TagAt(si) = tag /\ VocabularyEntry(WordAt(si)) = entry})

SmoothedTransition(prev, tag) ==
    SmoothMilli + OneMilli *
        Cardinality({si \in TokenPositions :
                        /\ si[2] > 1
                        /\ TagAt(<<si[1], si[2] - 1>>) = prev
                        /\ TagAt(si) = tag})

\* C7: after train_hmm_model returns, the word vocabulary is exactly UNK
\* plus the words occurring at least twice in the corpus, and the UNK
\* column of the emission counts holds, for each tag, every occurrence of a
\* word that occurs exactly once with that tag.
C7_RareWordPolicy ==
    trained.status = "ok" =>
        /\ TrainedWords =
               {UNK} \cup {WordAt(si) : si \in {p \in TokenPositions : Occurrences(WordAt(p)) >= 2}}
        /\ \A t \in TrainedTagIds :
               trained.emission_log_probs[t][IndexOf(trained.word_indexer, UNK)].num =
                   SmoothMilli + OneMilli *
                       Cardinality({si \in TokenPositions :
                                       /\ TagAt(si) = GetObject(trained.tag_indexer, t)
                                       /\ Occurrences(WordAt(si)) = 1})

\* A corpus with a word seen once and a word seen twice has been trained on.
C7_Witness ==
    /\ trained.status = "ok"
    /\ \E si \in TokenPositions : Occurrences(WordAt(si)) = 1
    /\ \E si \in TokenPositions : Occurrences(WordAt(si)) >= 2

\* The rows of a table of log-probabilities sum to 1 in probability space:
\* the entries are ratios over one denominator, which their numerators sum to.
RowSumsToOne(row, n) ==
    /\ \A k \in 0..(n - 1) : row[k].den = row[0].den
    /\ SumTo([k \in 0..(n - 1) |-> row[k].num], n - 1) = row[0].den

\* C9: every transition row and every emission row of a trained HMM sums
\* to 1 in probability space, each entry being its smoothed count divided
\* by the sum of the smoothed counts of its row.
C9_RowsNormalised ==
    trained.status = "ok" =>
        LET T == IndexerLen(trained.tag_indexer)
            V == IndexerLen(trained.word_indexer)
            tagOf(t) == GetObject(trained.tag_indexer, t)
            wordOf(w) == GetObject(trained.word_indexer, w)
        IN  \A p \in TrainedTagIds :
                /\ RowSumsToOne(trained.transition_log_probs[p], T)
                /\ RowSumsToOne(trained.emission_log_probs[p], V)
                /\ \A t \in TrainedTagIds :
                       trained.transition_log_probs[p][t] =
                           LogRatio(SmoothedTransition(tagOf(p), tagOf(t)),
                                    SumTo([u \in TrainedTagIds |->
                                              SmoothedTransition(tagOf(p), tagOf(u))], T - 1))
                /\ \A w \in TrainedWordIds :
                       trained.emission_log_probs[p][w] =
                           LogRatio(SmoothedEmission(tagOf(p), wordOf(w)),
                                    SumTo([u \in TrainedWordIds |->
                                              SmoothedEmission(tagOf(p), wordOf(u))], V - 1))

\* A model with two tags and two vocabulary entries, trained on a corpus
\* holding a transition, has been returned.
C9_Witness ==
    /\ trained.status = "ok"
    /\ IndexerLen(trained.tag_indexer) >= 2
    /\ IndexerLen(trained.word_indexer) >= 2
    /\ \E si \in TokenPositions : si[2] > 1


-----------------------------------------------------------------------------
(* Properties of the decoders.                                             *)

\* The initial, transition and emission scores a scorer gives a sentence.
ScoreTables(T, N, init(_), trans(_, _), emit(_, _)) ==
    [init |-> Array([t \in 0..(T - 1) |-> init(t)]),
     trans |-> Array([p \in 0..(T - 1) |-> Array([c \in 0..(T - 1) |-> trans(p, c)])]),
     emit |-> Array([t \in 0..(T - 1) |-> Array([k \in 0..(N - 1) |-> emit(t, k)])])]

HmmTables ==
    LET init(t) == prob_score_init(hmm, t)
        trans(p, c) == prob_score_transition(hmm, p, c)
        emit(t, k) == prob_score_emission(hmm, sentence, t, k)
    IN  ScoreTables(IndexerLen(hmm.tag_indexer), Len(sentence), init, trans, emit)

CrfTables ==
    LET scorer == Scorer(crf.tag_indexer, crf.feature_weights,
                         FeatureCache(sentence, crf.tag_indexer, crf.feature_indexer,
                                      FALSE).cache)
        init(t) == score_init(scorer, t)
        trans(p, c) == score_transition(scorer, p, c)
        emit(t, k) == score_emission(scorer, t, k)
    IN  ScoreTables(IndexerLen(crf.tag_indexer), Len(sentence), init, trans, emit)

\* The total score of a tag path: initial + emissions + transitions.
PathScore(tables, path, N) ==
    tables.init[path[0]] + tables.emit[path[0]][0]
        + SumTo([k \in 0..(N - 1) |->
                    IF k = 0 THEN 0
                    ELSE tables.trans[path[k - 1]][path[k]] + tables.emit[path[k]][k]],
                N - 1)

\* All T^N tag paths of a sentence of N words.
TagPaths(T, N) == [0..(N - 1) -> 0..(T - 1)]

\* The tag ids of the tag sequence the last call returned.
OutPath(tag_indexer) ==
    [k \in 0..(Len(out.result.pred_tags) - 1) |->
        IndexOf(tag_indexer, out.result.pred_tags[k + 1])]

\* The last call returned a tag sequence of maximal total score.
ReturnedBestPath(tables, tag_indexer) ==
    /\ out.result.status = "ok"
    /\ Len(out.result.pred_tags) = Len(sentence)
    /\ \A k \in 1..Len(sentence) : Contains(tag_indexer, out.result.pred_tags[k])
    /\ LET best == PathScore(tables, OutPath(tag_indexer), Len(sentence))
       IN  \A path \in TagPaths(IndexerLen(tag_indexer), Len(sentence)) :
               PathScore(tables, path, Len(sentence)) <= best

\* C1: for a sentence of N >= 1 words, the tag sequence HmmNerModel.decode
\* and CrfNerModel.decode return has a total score (initial + emissions +
\* transitions) equal to the maximum over all T^N tag sequences.
C1_ViterbiExact ==
    /\ (out.call = "HmmNerModel.decode" /\ Len(sentence) >= 1)
           => ReturnedBestPath(HmmTables, hmm.tag_indexer)
    /\ (out.call = "CrfNerModel.decode" /\ Len(sentence) >= 1)
           => ReturnedBestPath(CrfTables, crf.tag_indexer)

\* CrfNerModel.decode has returned for a sentence of three words or more,
\* some of whose tag paths score less than others.
C1_Witness ==
    /\ out.call = "CrfNerModel.decode"
    /\ out.result.status = "ok"
    /\ Len(sentence) >= 3
    /\ \E path \in TagPaths(IndexerLen(crf.tag_indexer), Len(sentence)) :
           PathScore(CrfTables, path, Len(sentence))
               < PathScore(CrfTables, OutPath(crf.tag_indexer), Len(sentence))

\* A BIO-illegal adjacent pair of tags.
IllegalPair(prev_tag, curr_tag) ==
    /\ curr_tag[1] = "I"
    /\ \/ prev_tag = TagO
       \/ prev_tag[1] \in {"B", "I"} /\ prev_tag[3] # curr_tag[3]

\* A tag sequence that starts with an I- tag or holds an illegal pair.
IllegalBIO(tags) ==
    \/ Len(tags) >= 1 /\ tags[1][1] = "I"
    \/ \E k \in 1..(Len(tags) - 1) : IllegalPair(tags[k], tags[k + 1])

\* C2: for every weight vector and every sentence, the tag sequence
\* CrfNerModel.decode returns never starts with an I- tag and never holds a
\* BIO-illegal adjacent pair.
C2_NoIllegalBIO ==
    (out.call = "CrfNerModel.decode" /\ out.result.status = "ok")
        => ~IllegalBIO(out.result.pred_tags)

\* T^N for the tag set and the sentence of the last call.
RECURSIVE Power(_, _)
Power(T, N) == IF N = 0 THEN 1 ELSE T * Power(T, N - 1)

\* C3: when the beam width is at least T^N, CrfNerModel.decode_beam returns
\* the tag sequence CrfNerModel.decode returns for the same sentence and
\* weights.
C3_BeamEqualsViterbi ==
    (/\ out.call = "CrfNerModel.decode_beam"
     /\ Len(sentence) >= 1
     /\ BeamSize >= Power(IndexerLen(crf.tag_indexer), Len(sentence)))
        => /\ out.result.status = "ok"
           /\ out.result = CrfDecode(crf, sentence)

\* C4: decoding the empty token sequence with HmmNerModel.decode,
\* CrfNerModel.decode or CrfNerModel.decode_beam ends in an error; nothing
\* is returned for it.
C4_EmptyRejected ==
    (out.call # "none" /\ sentence = << >>)
        => out.result.status \in {"ValueError", "IndexError"}

\* HmmNerModel.decode has been called with the empty token sequence.
C4_Witness ==
    /\ out.call = "HmmNerModel.decode"
    /\ sentence = << >>
    /\ out.result.status = "ValueError"

\* C5: every decode and decode_beam call, on any sentence and after any
\* calls before it, leaves the tag vocabulary, the word or feature
\* vocabulary and the potential tables or weight vector as they were;
\* unseen features are not added to the feature vocabulary.
C5_ModelUnchanged == [][hmm' = hmm /\ crf' = crf]_vars

\* The words of the sentence of the last call.
SentenceWords == {sentence[k].word : k \in 1..Len(sentence)}

\* CrfNerModel.decode has returned for a sentence with a word, and so with
\* features, the feature vocabulary does not know.
C5_Witness ==
    /\ out.call = "CrfNerModel.decode"
    /\ out.result.status = "ok"
    /\ \E k \in 1..Len(sentence) : \E tag \in DOMAIN crf.tag_indexer :
           \E j \in 1..Len(FeatureStrings(sentence, k - 1, tag)) :
               ~Contains(crf.feature_indexer, FeatureStrings(sentence, k - 1, tag)[j])

\* The sentence with UNK for every word the word vocabulary does not know.
UnkForUnknown(toks) ==
    [k \in 1..Len(toks) |->
        IF Contains(hmm.word_indexer, toks[k].word) THEN toks[k]
        ELSE Tok(UNK, toks[k].pos)]

\* C8: HmmNerModel.decode returns a tag sequence for a sentence with words
\* the word vocabulary does not know, and the emission scores it uses for
\* them are those of the UNK column: the outcome is that of decoding the
\* sentence with UNK in their place, a best path under the scorer.
C8_UnknownWordsUseUnk ==
    (/\ out.call = "HmmNerModel.decode"
     /\ \E w \in SentenceWords : ~Contains(hmm.word_indexer, w))
        => /\ out.result.status = "ok"
           /\ Len(out.result.pred_tags) = Len(sentence)
           /\ out.result = HmmDecode(hmm, UnkForUnknown(sentence))

\* HmmNerModel.decode has returned for a sentence with a known and an
\* unknown word, for a model whose UNK column differs from another column.
C8_Witness ==
    /\ out.call = "HmmNerModel.decode"
    /\ out.result.status = "ok"
    /\ \E w \in SentenceWords : ~Contains(hmm.word_indexer, w)
    /\ \E w \in SentenceWords : Contains(hmm.word_indexer, w)
    /\ \E t \in DOMAIN hmm.emission_log_probs :
           hmm.emission_log_probs[t][IndexOf(hmm.word_indexer, UNK)]
               # hmm.emission_log_probs[t][IndexOf(hmm.word_indexer, India)]


-----------------------------------------------------------------------------
(* Properties of compute_gradient.                                         *)

\* C10: the normalizer Z[i], the sum over the tags of the forward value
\* times the backward value at position i, is the same at every position
\* i; the sum of the forward values at the last position equals the sum of
\* the first emission values times the backward values at the first
\* position.
C10_NormalizersEqual ==
    fb.pc = "normalized" =>
        /\ \A i, j \in 0..(example.num_words - 1) :
               fb.denominators[i] = fb.denominators[j]
        /\ PolySum([t \in 0..(example.num_tags - 1) |->
                       fb.alpha_matrix[t][example.num_words - 1]],
                   example.num_tags - 1)
             = PolySum([t \in 0..(example.num_tags - 1) |->
                           PolyMul(ExpEmission(example, t, 0), fb.beta_matrix[t][0])],
                       example.num_tags - 1)

\* The normalizers of a sentence of three words or more are there, with
\* penalised transitions counted in them and emission scores that differ.
C10_Witness ==
    /\ fb.pc = "normalized"
    /\ example.num_words >= 3
    /\ fb.denominators[0][1] > 0
    /\ \E t \in 0..(example.num_tags - 1) :
           example.potentials[0][t] # example.potentials[1][t]


-----------------------------------------------------------------------------
(* Properties of the beam of decode_beam.                                  *)

\* Whether hypothesis seq is hypothesis shorter with one more tag.
Extends(seq, shorter) ==
    Len(seq) = Len(shorter) + 1 /\ SubSeq(seq, 1, Len(shorter)) = shorter

\* C11: in CrfNerModel.decode_beam, after the expansion step for position
\* i every hypothesis in the current beam has exactly i + 1 tags and
\* extends a hypothesis that survived position i - 1; the tag sequence
\* returned after the last position has exactly N tags.
C11_BeamHypothesisLengths ==
    out.call = "CrfNerModel.decode_beam" =>
        /\ \A p \in 1..Len(out.beams) : \A k \in 1..Len(out.beams[p]) :
               /\ Len(out.beams[p][k]) = p
               /\ p > 1 => \E j \in 1..Len(out.beams[p - 1]) :
                               Extends(out.beams[p][k], out.beams[p - 1][j])
        /\ out.result.status = "ok" => Len(out.result.pred_tags) = Len(sentence)


-----------------------------------------------------------------------------
(* Properties of train_crf_model.                                          *)

\* The gradients computed so far in epoch e for sentence i.
GradientsFor(e, i) ==
    {k \in 1..Len(trained.gradients) :
        trained.gradients[k].epoch = e /\ trained.gradients[k].sentence = i}

\* C12: train_crf_model runs exactly 3 epochs, in each epoch the gradient
\* of every sentence is computed exactly once, and the update for a
\* sentence is applied before the next gradient is computed: the k-th
\* gradient is computed against the weights with all k - 1 earlier updates.
C12_FullyOnline ==
    trained.pc \notin {"start"} =>
        /\ \A k \in 1..Len(trained.gradients) :
               /\ trained.gradients[k].weights = k - 1
               /\ trained.gradients[k].epoch \in 0..2
               /\ Cardinality(GradientsFor(trained.gradients[k].epoch,
                                           trained.gradients[k].sentence)) = 1
        /\ \A k \in 1..Len(trained.weight_vector) :
               trained.weight_vector[k] =
                   [sentence |-> trained.gradients[k].sentence, weights |-> k - 1]
        /\ Len(trained.weight_vector) =
               Len(trained.gradients) - (IF trained.pc = "update" THEN 1 ELSE 0)
        /\ trained.pc = "returned" =>
               /\ trained.epoch = 3
               /\ \A e \in 0..2 : \A i \in 0..(Len(corpus) - 1) :
                      Cardinality(GradientsFor(e, i)) = 1
               /\ Len(trained.weight_vector) = 3 * Len(corpus)

\* train_crf_model has returned for a corpus of two sentences or more which
\* an epoch went through in another order than the corpus has.
C12_Witness ==
    /\ trained.pc = "returned"
    /\ Len(corpus) >= 2
    /\ trained.gradients[1].sentence # 0


-----------------------------------------------------------------------------
(* Properties of the word vocabulary train_hmm_model returns.              *)

\* C13: for every non-empty corpus, with silent true or false,
\* train_hmm_model returns a model, and every id its word vocabulary holds
\* is a column of its emission table: the vocabulary is not grown after
\* the count tables are sized.
C13_VocabularyFitsEmissions ==
    (trained # Untrained /\ TokenPositions # {}) =>
        /\ trained.status = "ok"
        /\ \A w \in DOMAIN trained.word_indexer :
               trained.word_indexer[w] \in TrainedWordIds

====
